---- MODULE Spec2Model ----
(***************************************************************************)
(* A model of lib/HLSPFile.py: the HLSPFile metadata document, its five    *)
(* ingestion-step flags, its file-type registry, its three FITS keyword    *)
(* lists (working, standard, updates) and the load / persist protocol.     *)
(*                                                                         *)
(* Python values are modelled as strings and records: None is the string   *)
(* "None", a missing attribute is the string "Missing".  The classes       *)
(* FitsKeyword, FitsKeywordList and FileType live in lib/FitsKeyword.py    *)
(* and lib/FileType.py, which are not part of the source at hand: their    *)
(* operations are modelled from the specification (section 4.1).           *)
(***************************************************************************)
EXTENDS Integers, Sequences, FiniteSets, TLC

\* The number of API calls made on one document in a session.
MaxCalls == 5

\* The number of those calls that may be add_unique_parameter.
MaxParamCalls == 3

\* The number of entries of a file-type registry given at the start.
MaxTypes == 3

None == "None"
Missing == "Missing"

----------------------------------------------------------------------------
(* Generic sequence helpers.                                               *)

Range(s) == {s[i] : i \in 1..Len(s)}

RECURSIVE FoldSeq(_, _, _)
\* Python "for x in s: acc = f(acc, x)".
FoldSeq(f(_, _), acc, s) ==
    IF s = <<>> THEN acc ELSE FoldSeq(f, f(acc, Head(s)), Tail(s))

----------------------------------------------------------------------------
(* The ingestion steps (HLSPFile.__init__).                                *)

steps == <<"00_filenames_checked",
           "01_metadata_prechecked",
           "02_metadata_checked",
           "03_fits_keywords_set",
           "04_value_parameters_added">>

NumSteps == Len(steps)

\* sorted(self.ingest.keys()): the step names carry their number as a
\* prefix, so the sorted list is the list of __init__.
SortedIngestKeys == steps

\* The step numbers toggle_ingest is called with.  Python accepts a negative
\* index (counted from the end); anything else raises IndexError.
StepNums == (0 - NumSteps - 1)..NumSteps

ValidStepNum(n) == n >= 0 - NumSteps /\ n < NumSteps

\* sorted(keys)[step_num], as a 1-based position in SortedIngestKeys.
PyIndex(n) == IF n >= 0 THEN n + 1 ELSE NumSteps + n + 1

\* sorted(keys)[:step_num], as the set of 1-based positions it holds.
PySliceTo(n) ==
    IF n >= 0 THEN 1..(IF n > NumSteps THEN NumSteps ELSE n)
    ELSE 1..(NumSteps + n)

\* The state argument of toggle_ingest: a bool, or omitted (None).
ToggleStates == {"True", "False", None}

\* isinstance(state, bool).
IsBool(state) == state \in {"True", "False"}

----------------------------------------------------------------------------
(* FITS keywords (lib/FitsKeyword.py, modelled from the specification).    *)

KwIds == {"K1", "K2", "K3"}
KwVals == {"a", "b"}
KwFields == {"caom_keyword", "default"}

\* A FitsKeyword object: its identifier and its parameters.
FitsKeyword(kw, caom, dflt) ==
    [fits_keyword |-> kw, caom_keyword |-> caom, default |-> dflt]

\* FitsKeyword.as_dict()[fits_keyword]: the parameters of a keyword.
KwParams(kw) == [f \in KwFields |-> kw[f]]

\* FitsKeyword.update(new_dict): merge the supplied (non-null) fields.
KwUpdate(kw, params) ==
    [kw EXCEPT !.caom_keyword = IF params.caom_keyword # None
                                  THEN params.caom_keyword ELSE @,
               !.default = IF params.default # None
                             THEN params.default ELSE @]

\* FitsKeyword.copy().
KwCopy(kw) == kw

\* The position of identifier k in a keyword list, 0 when absent.
KwFind(list, k) ==
    IF \E i \in 1..Len(list) : list[i].fits_keyword = k
    THEN CHOOSE i \in 1..Len(list) :
            /\ list[i].fits_keyword = k
            /\ \A j \in 1..(i - 1) : list[j].fits_keyword # k
    ELSE 0

KwIdsOf(list) == {list[i].fits_keyword : i \in 1..Len(list)}

\* FitsKeywordList.empty_list().
EmptyList == <<>>

\* FitsKeywordList.add(hk): merge into the record with the same identifier,
\* else append.
ListAdd(list, hk) ==
    IF hk.fits_keyword \in KwIdsOf(list)
    THEN [i \in 1..Len(list) |->
            IF list[i].fits_keyword = hk.fits_keyword
            THEN KwUpdate(list[i], KwParams(hk)) ELSE list[i]]
    ELSE Append(list, hk)

\* The record of the divergence of kw from other: the identity and the
\* fields that differ.
KwDelta(kw, other) ==
    [fits_keyword |-> kw.fits_keyword,
     caom_keyword |-> IF kw.caom_keyword # other.caom_keyword
                      THEN kw.caom_keyword ELSE None,
     default |-> IF kw.default # other.default THEN kw.default ELSE None]

DiffStep(other, acc, kw) ==
    LET i == KwFind(other, kw.fits_keyword) IN
    IF i = 0 THEN Append(acc, kw)
    ELSE IF kw # other[i] THEN Append(acc, KwDelta(kw, other[i]))
    ELSE acc

\* FitsKeywordList.diff(another_list).
ListDiff(self, other) ==
    LET step(acc, kw) == DiffStep(other, acc, kw) IN
    FoldSeq(step, <<>>, self)

----------------------------------------------------------------------------
(* File types (lib/FileType.py, modelled from the specification).          *)

FileType(ft, std, pt, rc) ==
    [ftype |-> ft, standard |-> std, product_type |-> pt, run_check |-> rc]

\* The FileType objects callers register: two with the same type tag (one
\* taking part in the metadata check, one not) and one of another standard.
FileTypeObjs ==
    {FileType("fits", "hst", "image", TRUE),
     FileType("fits", "hst", "image", FALSE),
     FileType("txt", "kepler", "spectrum", TRUE)}

\* An object without the ftype attribute.
NotAFileType == FileType(Missing, None, None, FALSE)

\* FileType.as_dict() and FileType.from_list_item(): one list item of the
\* FileTypes section, {ftype: {parameters}}.
FileTypeAsDict(ft) ==
    <<ft.ftype, [standard |-> ft.standard, product_type |-> ft.product_type,
                 run_check |-> ft.run_check]>>

FileTypeFromListItem(item) ==
    FileType(item[1], item[2].standard, item[2].product_type, item[2].run_check)

\* FitsKeyword.as_dict() and FitsKeyword.from_list_item(): one list item of
\* the KeywordUpdates section, {fits_keyword: {parameters}}.
KwAsDict(kw) == <<kw.fits_keyword, KwParams(kw)>>

KwFromListItem(item) == FitsKeyword(item[1], item[2].caom_keyword, item[2].default)

----------------------------------------------------------------------------
(* The objects callers hand to the keyword operations.                     *)

\* FitsKeyword objects: an override of one field of a template keyword, a
\* copy of a template keyword, a keyword of no template, and an update of
\* the latter.
KwObjs ==
    {FitsKeyword("K1", None, "b"),
     FitsKeyword("K1", "a", "a"),
     FitsKeyword("K3", "b", None),
     FitsKeyword("K3", None, "a")}

\* Objects that are no FitsKeyword: one with neither attribute, one with
\* only caom_keyword, one with only fits_keyword.  None has the methods of
\* a FitsKeyword (copy, as_dict, update).
ForeignObjs ==
    {FitsKeyword(Missing, Missing, None),
     FitsKeyword(Missing, "a", None),
     FitsKeyword("K1", Missing, None)}

HasFitsKeywordAttr(obj) == obj.fits_keyword # Missing
HasCaomKeywordAttr(obj) == obj.caom_keyword # Missing
IsFitsKeyword(obj) == HasFitsKeywordAttr(obj) /\ HasCaomKeywordAttr(obj)

\* An object lacking the keyword identifier the lists are keyed by.
LacksIdentifier(obj) == ~HasFitsKeywordAttr(obj)

\* What kind of object a call was given.
ShapeOf(obj) ==
    IF IsFitsKeyword(obj) THEN "FitsKeyword"
    ELSE IF HasCaomKeywordAttr(obj) THEN "caom_keyword only"
    ELSE IF HasFitsKeywordAttr(obj) THEN "fits_keyword only"
    ELSE "other"

----------------------------------------------------------------------------
(* External resources: the FITS templates and the static-values table.     *)

\* read_yaml(<root>/CHECK_METADATA_FORMAT/TEMPLATES/<std>.yml)["KEYWORDS"],
\* in file order.  std is "<product_type>_<standard>", kept as the pair.
Template(std) ==
    IF std = <<"image", "hst">>
    THEN <<FitsKeyword("K1", "a", "a"), FitsKeyword("K2", "b", None)>>
    ELSE <<FitsKeyword("K1", "a", "b")>>

\* A placeholder value of the static-values table ends with ">".
Placeholder == "<placeholder>"

\* The values that are not strings (the value of a named parameter is any
\* object): a number, written as Python writes it.  No name, path or static
\* value is written so.
NonStrValues == {"5"}

\* isinstance(value, str): such a value has the method endswith.
IsStr(value) == value \notin NonStrValues

\* value.endswith(">"), for a string.
EndsWithSentinel(value) ==
    Len(value) > 0 /\ SubSeq(value, Len(value), Len(value)) = ">"

\* read_yaml(_static_values_yaml): section key -> <<parent, keyword, value>>
\* entries.  A key that is not in the table raises KeyError.
StaticSections == {"hlsp", "image", "hst"}

StaticVals(key) ==
    IF key = "hlsp"
    THEN <<<<"provenance", "name", Placeholder>>,
           <<"provenance", "reference", Placeholder>>>>
    ELSE IF key = "image"
    THEN <<<<"metadataList", "dataProductType", "IMAGE">>>>
    ELSE <<<<"provenance", "project", "HST">>>>

----------------------------------------------------------------------------
(* Product names and the paths derived from them.                          *)

Names == {"blank", "Foo"}

Upper(n) == IF n = "Foo" THEN "FOO" ELSE "BLANK"
Lower(n) == IF n = "Foo" THEN "foo" ELSE "blank"

_check_file_names_out == "check_file_names"
_check_metadata_format_out == "check_metadata_format"
_precheck_metadata_format_out == "precheck_data_format"
_check_file_names_dir == "CHECK_FILE_NAMES"
_check_metadata_format_dir == "CHECK_METADATA_FORMAT"
_file_ext == ".hlsp"
_root_dir == "MAST_HLSP"

\* The attributes _update_stage_paths creates do not exist before its first
\* call: reading one raises AttributeError.
Unset == "Unset"
NoStagePaths ==
    [_root |-> Unset, _default_path |-> <<>>, _cfn_path |-> <<>>,
     _pcdf_path |-> <<>>, _cmd_path |-> <<>>]

\* What a call returns, as a tuple: a path keeps its components (root,
\* directory, file name), a string is a tuple of one string and None a
\* tuple of None.
ReturnNone == <<None>>
ReturnStr(str) == <<str>>

----------------------------------------------------------------------------
(* The document.  Each method is a function from the document before the   *)
(* call to the document after it; the field err holds the exception the    *)
(* call raised ("none" when it returned).                                  *)

EmptyMap == [x \in {} |-> x]

\* HLSPFile.__init__() without arguments.
NewDoc ==
    [ingest |-> [s \in Range(steps) |-> FALSE],
     file_paths |-> [InputDir |-> "", Output |-> ""],
     file_types |-> <<>>,
     hlsp_name |-> "blank",
     keyword_updates |-> EmptyList,
     unique_parameters |-> EmptyMap,
     fits_keywords |-> EmptyList,
     standard_keywords |-> EmptyList,
     stage_paths |-> NoStagePaths,
     aliased |-> {},
     err |-> "none"]

Raise(d, exc) == [d EXCEPT !.err = exc]

\* Sequencing: the second statement runs only if the first returned.
Then(d, f(_)) == IF d.err # "none" THEN d ELSE f(d)

\* _get_filename(prefix).
_get_filename(d, prefix) ==
    [prefix |-> prefix, name |-> Lower(d.hlsp_name), ext |-> _file_ext]

\* _update_stage_paths().
_update_stage_paths(d) ==
    [d EXCEPT !.stage_paths =
        [_root |-> _root_dir,
         _default_path |-> <<_root_dir, None, _get_filename(d, None)>>,
         _cfn_path |-> <<_root_dir, _check_file_names_dir,
                         _get_filename(d, _check_file_names_out)>>,
         _pcdf_path |-> <<_root_dir, _check_metadata_format_dir,
                          _get_filename(d, _precheck_metadata_format_out)>>,
         _cmd_path |-> <<_root_dir, _check_metadata_format_dir,
                         _get_filename(d, _check_metadata_format_out)>>]]

\* HLSPFile.__init__(name=name).
NewNamedDoc(name) == _update_stage_paths([NewDoc EXCEPT !.hlsp_name = name])

toggle_ingest_previous_only(d, step_num, state) ==
    IF ~ValidStepNum(step_num) THEN Raise(d, "IndexError")
    ELSE LET ind == SortedIngestKeys[PyIndex(step_num)]
             val == IF IsBool(state) THEN state = "True" ELSE ~d.ingest[ind]
             before == {SortedIngestKeys[i] :
                           i \in {PyIndex(step_num) - 1} \ {0}}
         IN  [d EXCEPT !.ingest =
                [s \in DOMAIN @ |->
                    IF s = ind THEN val
                    ELSE IF val /\ s \in before THEN TRUE
                    ELSE @[s]]]

toggle_ingest_no_propagation(d, step_num, state) ==
    IF ~ValidStepNum(step_num) THEN Raise(d, "IndexError")
    ELSE LET ind == SortedIngestKeys[PyIndex(step_num)]
             val == IF IsBool(state) THEN state = "True" ELSE ~d.ingest[ind]
         IN  [d EXCEPT !.ingest = [@ EXCEPT ![ind] = val]]

\* toggle_ingest(step_num, state).
toggle_ingest(d, step_num, state) ==
    IF ~ValidStepNum(step_num) THEN Raise(d, "IndexError")
    ELSE LET ind == SortedIngestKeys[PyIndex(step_num)]
             val == IF IsBool(state) THEN state = "True" ELSE ~d.ingest[ind]
             before == {SortedIngestKeys[i] : i \in PySliceTo(step_num)}
         IN  [d EXCEPT !.ingest =
                [s \in DOMAIN @ |->
                    IF s = ind THEN val
                    ELSE IF val /\ s \in before THEN TRUE
                    ELSE @[s]]]

add_filetype_no_dedup(d, new_filetype) ==
    IF new_filetype.ftype = Missing THEN Raise(d, "TypeError")
    ELSE [d EXCEPT !.file_types = Append(@, new_filetype)]

\* add_filetype(new_filetype).
add_filetype(d, new_filetype) ==
    IF new_filetype.ftype = Missing THEN Raise(d, "TypeError")
    ELSE LET current_types == {d.file_types[i].ftype :
                                  i \in 1..Len(d.file_types)}
         IN  IF new_filetype.ftype \notin current_types
             THEN [d EXCEPT !.file_types = Append(@, new_filetype)]
             ELSE d

\* remove_filetype(filetype_obj): remove the first entry with its tag.
remove_filetype(d, filetype_obj) ==
    LET hits == {i \in 1..Len(d.file_types) :
                    d.file_types[i].ftype = filetype_obj.ftype}
    IN  IF hits = {} THEN d
        ELSE LET first == CHOOSE i \in hits : \A j \in hits : i <= j
             IN  [d EXCEPT !.file_types =
                    SubSeq(@, 1, first - 1) \o SubSeq(@, first + 1, Len(@))]

\* A foreign object sits in a keyword list of the document: what later
\* calls do with it is decided by lib/FitsKeyword.py, so the session of the
\* model ends there.
Corrupt(d) ==
    \/ \E i \in 1..Len(d.fits_keywords) : ~IsFitsKeyword(d.fits_keywords[i])
    \/ \E i \in 1..Len(d.keyword_updates) : ~IsFitsKeyword(d.keyword_updates[i])

\* FitsKeywordList.add(hk) on the working list: a value that is no
\* FitsKeyword is a type mismatch.  An update in place also reaches the
\* update list when the record is the same object in both lists.
WorkingAdd(d, hk) ==
    IF ~IsFitsKeyword(hk) THEN Raise(d, "TypeError")
    ELSE LET k == hk.fits_keyword
             new == ListAdd(d.fits_keywords, hk)
         IN  [d EXCEPT !.fits_keywords = new,
                       !.keyword_updates =
                           IF k \in d.aliased
                           THEN [i \in 1..Len(@) |->
                                   IF @[i].fits_keyword = k
                                   THEN new[KwFind(new, k)] ELSE @[i]]
                           ELSE @]

StandardAdd(d, hk) ==
    IF ~IsFitsKeyword(hk) THEN Raise(d, "AttributeError")
    ELSE [d EXCEPT !.standard_keywords = ListAdd(@, KwCopy(hk))]

add_fits_keyword_standard_list_only(d, keyword_obj, standard) ==
    IF ~HasFitsKeywordAttr(keyword_obj) THEN Raise(d, "TypeError")
    ELSE IF standard THEN StandardAdd(d, keyword_obj)
    ELSE WorkingAdd(d, keyword_obj)

\* add_fits_keyword(keyword_obj, standard); standard is TRUE or FALSE (the
\* default None is as good as False).
add_fits_keyword(d, keyword_obj, standard) ==
    IF ~HasFitsKeywordAttr(keyword_obj) THEN Raise(d, "TypeError")
    ELSE LET add(x) == WorkingAdd(x, keyword_obj) IN
         Then(IF standard THEN StandardAdd(d, keyword_obj) ELSE d, add)

_add_fits_keyword_always_append(d, keyword_obj, from_updates) ==
    IF ~HasCaomKeywordAttr(keyword_obj) THEN Raise(d, "TypeError")
    ELSE [d EXCEPT !.fits_keywords = Append(@, keyword_obj)]

\* _add_fits_keyword(keyword_obj).  from_updates: the object is a member of
\* the update list (the call of _implement_keyword_updates), so appending
\* it makes one object a member of both lists.
_add_fits_keyword(d, keyword_obj, from_updates) ==
    IF ~HasCaomKeywordAttr(keyword_obj) THEN Raise(d, "TypeError")
    ELSE IF d.fits_keywords # <<>> /\ ~HasFitsKeywordAttr(keyword_obj)
    THEN Raise(d, "AttributeError")
    ELSE LET k == keyword_obj.fits_keyword
             found == k \in KwIdsOf(d.fits_keywords)
         IN  IF found
             THEN IF from_updates /\ k \in d.aliased THEN d
                  ELSE WorkingAdd(d, keyword_obj)
             ELSE [d EXCEPT !.fits_keywords = Append(@, keyword_obj),
                            !.aliased = IF from_updates THEN @ \cup {k} ELSE @]

add_keyword_update_always_append(d, keyword) ==
    IF ~HasFitsKeywordAttr(keyword) THEN Raise(d, "TypeError")
    ELSE [d EXCEPT !.keyword_updates = Append(@, keyword)]

\* add_keyword_update(keyword).
add_keyword_update(d, keyword) ==
    IF ~HasFitsKeywordAttr(keyword) THEN Raise(d, "TypeError")
    ELSE LET k == keyword.fits_keyword
             i == KwFind(d.keyword_updates, k)
         IN  IF Len(d.keyword_updates) = 0 \/ i = 0
             THEN [d EXCEPT !.keyword_updates = Append(@, keyword)]
             ELSE IF ~IsFitsKeyword(keyword) THEN Raise(d, "AttributeError")
             ELSE LET merged == KwUpdate(d.keyword_updates[i], KwParams(keyword))
                  IN  [d EXCEPT !.keyword_updates = [@ EXCEPT ![i] = merged],
                                !.fits_keywords =
                                    IF k \in d.aliased
                                    THEN [j \in 1..Len(@) |->
                                            IF @[j].fits_keyword = k
                                            THEN merged ELSE @[j]]
                                    ELSE @]

url_root == "https://archive.stsci.edu/hlsp"

add_unique_parameter_as_given(d, caom, parent, value) ==
    LET up == IF parent \in DOMAIN d.unique_parameters
              THEN d.unique_parameters
              ELSE (parent :> EmptyMap) @@ d.unique_parameters
    IN  [d EXCEPT !.unique_parameters =
            [up EXCEPT ![parent] = (caom :> value) @@ @]]

add_unique_parameter_if_absent(d, caom, parent, value) ==
    IF /\ parent \in DOMAIN d.unique_parameters
       /\ caom \in DOMAIN d.unique_parameters[parent]
    THEN d
    ELSE add_unique_parameter_as_given(d, caom, parent, value)

\* add_unique_parameter(caom, parent, value).  The section is created
\* first; for 'name' and 'reference' of 'provenance' value.endswith is then
\* called, which a value that is not a string does not have: AttributeError,
\* nothing stored.
add_unique_parameter(d, caom, parent, value) ==
    LET up == IF parent \in DOMAIN d.unique_parameters
              THEN d.unique_parameters
              ELSE (parent :> EmptyMap) @@ d.unique_parameters
        tested == parent = "provenance" /\ caom \in {"name", "reference"}
        val == IF tested /\ caom = "name" /\ EndsWithSentinel(value)
               THEN Upper(d.hlsp_name)
               ELSE IF tested /\ caom = "reference" /\ EndsWithSentinel(value)
               THEN url_root \o "/" \o Lower(d.hlsp_name)
               ELSE value
    IN  IF tested /\ ~IsStr(value)
        THEN Raise([d EXCEPT !.unique_parameters = up], "AttributeError")
        ELSE [d EXCEPT !.unique_parameters =
                 [up EXCEPT ![parent] = (caom :> val) @@ @]]

\* _bulk_add_static_values(static_values).
_bulk_add_static_values(d, static_values) ==
    LET step(acc, e) ==
            LET add(x) == add_unique_parameter(x, e[2], e[1], e[3])
            IN  Then(acc, add)
    IN  FoldSeq(step, d, static_values)

\* not x, for a string attribute of a FileType.
Falsy(x) == x = None \/ x = ""

member_fits_standards_unchecked_too(d) ==
    LET step(acc, ft) ==
            IF Falsy(ft.standard) \/ Falsy(ft.product_type)
            THEN acc
            ELSE LET std == <<ft.product_type, ft.standard>>
                 IN  IF std \notin Range(acc) THEN Append(acc, std) ELSE acc
    IN  FoldSeq(step, <<>>, d.file_types)

\* member_fits_standards(): the list of "<product_type>_<standard>" names,
\* the empty list standing for None.
member_fits_standards(d) ==
    LET step(acc, ft) ==
            IF Falsy(ft.standard) \/ Falsy(ft.product_type) \/ ~ft.run_check
            THEN acc
            ELSE LET std == <<ft.product_type, ft.standard>>
                 IN  IF std \notin Range(acc) THEN Append(acc, std) ELSE acc
        standards == FoldSeq(step, <<>>, d.file_types)
    IN  standards

\* The body of the loop of _get_standard_fits_keywords for one standard.
DeriveStandard(d, std) ==
    LET addkw(acc, kw_obj) ==
            LET add(x) == add_fits_keyword(x, kw_obj, TRUE) IN Then(acc, add)
        d1 == FoldSeq(addkw, d, Template(std))
        section(key, x) ==
            LET bulk(y) == _bulk_add_static_values(y, StaticVals(key))
            IN  IF key \in StaticSections THEN Then(x, bulk) ELSE x
        statics(x) ==
            section(std[2], section(std[1], section("hlsp", x)))
    IN  IF d.stage_paths._root = Unset THEN Raise(d, "AttributeError")
        ELSE Then(d1, statics)

\* _get_standard_fits_keywords().
_get_standard_fits_keywords(d) ==
    LET step(acc, std) ==
            LET one(x) == DeriveStandard(x, std) IN Then(acc, one)
    IN  FoldSeq(step, d, member_fits_standards(d))

\* reset_fits_keywords().
reset_fits_keywords(d) ==
    _get_standard_fits_keywords(
        [d EXCEPT !.fits_keywords = EmptyList,
                  !.standard_keywords = EmptyList,
                  !.aliased = {}])

_get_keyword_updates_no_diff(d) ==
    [d EXCEPT !.keyword_updates = d.fits_keywords, !.aliased = {}]

\* _get_keyword_updates().
_get_keyword_updates(d) ==
    [d EXCEPT !.keyword_updates = ListDiff(d.fits_keywords, d.standard_keywords),
              !.aliased = {}]

\* _implement_keyword_updates().
_implement_keyword_updates(d) ==
    LET step(acc, kw_obj) ==
            LET add(x) == _add_fits_keyword(x, kw_obj, TRUE) IN Then(acc, add)
    IN  FoldSeq(step, d, d.keyword_updates)

----------------------------------------------------------------------------
(* The persisted form: as_dict and load_dict.                              *)

\* A dictionary in the .hlsp layout: the set of its keys and their values
\* (the value of an absent key is not read).
HlspDict(keys, ft, name, ku) ==
    [keys |-> keys,
     FilePaths |-> [InputDir |-> "", Output |-> ""],
     FileTypes |-> ft,
     HlspName |-> name,
     Ingest |-> [s \in Range(steps) |-> FALSE],
     KeywordUpdates |-> ku,
     UniqueParameters |-> EmptyMap]

EmptyDict == HlspDict({}, <<>>, "", <<>>)

\* The keys of the .hlsp layout, and two keys no attribute answers to.
HlspKeys == {"FilePaths", "FileTypes", "HlspName", "Ingest",
             "KeywordUpdates", "UniqueParameters"}
UnknownKeys == {"Zzz", "zzz"}

\* The format of as_dict: "file_types" -> "FileTypes".
KeyOf(attr) ==
    CASE attr = "file_paths" -> "FilePaths"
      [] attr = "file_types" -> "FileTypes"
      [] attr = "hlsp_name" -> "HlspName"
      [] attr = "ingest" -> "Ingest"
      [] attr = "keyword_updates" -> "KeywordUpdates"
      [] attr = "unique_parameters" -> "UniqueParameters"

\* "_".join(k.lower() for k in re.findall('[A-Z][^A-Z]*', key)): the text
\* before the first capital letter is dropped, so a key without a capital
\* letter gives the empty string.
AttrOf(key) ==
    CASE key = "FilePaths" -> "file_paths"
      [] key = "FileTypes" -> "file_types"
      [] key = "HlspName" -> "hlsp_name"
      [] key = "Ingest" -> "ingest"
      [] key = "KeywordUpdates" -> "keyword_updates"
      [] key = "UniqueParameters" -> "unique_parameters"
      [] key = "Zzz" -> "zzz"
      [] key = "zzz" -> ""

\* The public attributes __init__ creates.
PublicAttrs == {"file_paths", "file_types", "hlsp_name", "ingest",
                "keyword_updates", "unique_parameters"}

\* not val, for the value of a key.
FalsyVal(dict, key) ==
    CASE key = "FilePaths" -> FALSE
      [] key = "FileTypes" -> dict.FileTypes = <<>>
      [] key = "HlspName" -> dict.HlspName = ""
      [] key = "Ingest" -> FALSE
      [] key = "KeywordUpdates" -> dict.KeywordUpdates = <<>>
      [] key = "UniqueParameters" -> DOMAIN dict.UniqueParameters = {}
      [] OTHER -> FALSE

\* The keys in the order of Python's string comparison.
KeyOrder == <<"FilePaths", "FileTypes", "HlspName", "Ingest",
              "KeywordUpdates", "UniqueParameters", "Zzz", "zzz">>

Reverse(s) == [i \in 1..Len(s) |-> s[Len(s) + 1 - i]]

SortedKeys_reversed(dict) ==
    LET has(k) == k \in dict.keys IN SelectSeq(Reverse(KeyOrder), has)

\* sorted(from_dict.keys()).
SortedKeys(dict) ==
    LET has(k) == k \in dict.keys IN SelectSeq(KeyOrder, has)

as_dict_stale_updates(d) == d

\* as_dict(): the document after the call (the update list is recomputed).
as_dict(d) == _get_keyword_updates(d)

\* as_dict(): the dictionary returned.
AsDictResult(d) ==
    LET d1 == as_dict(d) IN
    [keys |-> {KeyOf(a) : a \in PublicAttrs},
     FilePaths |-> d1.file_paths,
     FileTypes |-> [i \in 1..Len(d1.file_types) |->
                       FileTypeAsDict(d1.file_types[i])],
     HlspName |-> d1.hlsp_name,
     Ingest |-> d1.ingest,
     KeywordUpdates |-> [i \in 1..Len(d1.keyword_updates) |->
                            KwAsDict(d1.keyword_updates[i])],
     UniqueParameters |-> d1.unique_parameters]

\* The keys whose value in the dictionary as_dict returned is the
\* document's own dictionary object (val of self.__dict__.items(), stored
\* as it is); FileTypes and KeywordUpdates are new lists and HlspName is a
\* string.
SharedKeys == {"FilePaths", "Ingest", "UniqueParameters"}

\* A dictionary the caller holds, once the document has become d: the
\* values that are objects of the document (keys) show what the document
\* has done to them in place.
Held(dict, keys, d) ==
    [dict EXCEPT
        !.FilePaths = IF "FilePaths" \in keys THEN d.file_paths ELSE @,
        !.Ingest = IF "Ingest" \in keys THEN d.ingest ELSE @,
        !.UniqueParameters = IF "UniqueParameters" \in keys
                             THEN d.unique_parameters ELSE @]

\* setattr(self, attr, val) for one of these keys: the attribute becomes
\* the object of the dictionary that is loaded.
Rebinds(dict, key) == key \in SharedKeys /\ ~FalsyVal(dict, key)

\* The body of the loop of load_dict for one key.  An unknown attribute
\* ends the load: building the message reads the undefined name filename,
\* so the exception is a NameError and "self = HLSPFile()" is not reached
\* (it would rebind the local name only).
LoadKey(d, dict, key) ==
    LET attr == AttrOf(key) IN
    IF attr = "" \/ FalsyVal(dict, key) THEN d
    ELSE IF attr \notin PublicAttrs THEN Raise(d, "NameError")
    ELSE IF attr = "file_types"
    THEN LET addft(acc, item) ==
                 LET add(x) == add_filetype(x, FileTypeFromListItem(item))
                 IN  Then(acc, add)
         IN  Then(FoldSeq(addft, d, dict.FileTypes), reset_fits_keywords)
    ELSE IF attr = "keyword_updates"
    THEN LET addkw(acc, item) ==
                 LET add(x) == add_fits_keyword(x, KwFromListItem(item), FALSE)
                 IN  Then(acc, add)
         IN  FoldSeq(addkw, d, dict.KeywordUpdates)
    ELSE IF attr = "hlsp_name"
    THEN _update_stage_paths([d EXCEPT !.hlsp_name = dict.HlspName])
    ELSE IF attr = "file_paths" THEN [d EXCEPT !.file_paths = dict.FilePaths]
    ELSE IF attr = "ingest" THEN [d EXCEPT !.ingest = dict.Ingest]
    ELSE [d EXCEPT !.unique_parameters = dict.UniqueParameters]

\* Hand-written dictionaries given to load_dict, beside the ones as_dict
\* returned: with an unknown key after a known one, with a key without a
\* capital letter, and with file types and keyword updates.
LoadDicts ==
    {HlspDict({"HlspName", "Zzz"}, <<>>, "Foo", <<>>),
     HlspDict({"HlspName", "zzz"}, <<>>, "Foo", <<>>),
     HlspDict({"FileTypes", "KeywordUpdates", "Zzz"},
              <<FileTypeAsDict(FileType("fits", "hst", "image", TRUE))>>,
              "",
              <<KwAsDict(FitsKeyword("K1", None, "b")),
                KwAsDict(FitsKeyword("K3", "b", None))>>),
     HlspDict({"FileTypes", "KeywordUpdates", "HlspName"},
              <<FileTypeAsDict(FileType("fits", "hst", "image", TRUE)),
                FileTypeAsDict(FileType("fits", "hst", "image", FALSE))>>,
              "Foo",
              <<KwAsDict(FitsKeyword("K1", None, "b"))>>)}

----------------------------------------------------------------------------
(* File paths: the input directory, the output paths of the stages and the *)
(* log files.                                                              *)

\* The values given for a directory or an output file: None, the empty
\* string and a path.
PathArgs == {None, "", "/data"}

\* not x, for a string or None.
FalsyStr(x) == x = None \/ x = ""

\* update_filepaths(input, output).
update_filepaths(d, input, output) ==
    LET in_paths == IF FalsyStr(input) THEN EmptyMap
                    ELSE ("InputDir" :> input)
        new_paths == IF FalsyStr(output) THEN in_paths
                     ELSE ("Output" :> output) @@ in_paths
    IN  [d EXCEPT !.file_paths = new_paths @@ @]

\* get_data_path(): the exception it raises, and the value it returns.
get_data_path(d) ==
    IF "InputDir" \in DOMAIN d.file_paths THEN d
    ELSE Raise(d, "AttributeError")

get_data_path_return(d) ==
    IF "InputDir" \in DOMAIN d.file_paths
    THEN ReturnStr(d.file_paths["InputDir"])
    ELSE ReturnNone

\* A file name given as the hint of the calling routine, already split:
\* the sequence of its "/"-separated components, each the sequence of its
\* "."-separated parts.  NotAStr stands for None.
NotAStr == <<>>
EmptyStr == <<<<"">>>>
CallFiles ==
    {NotAStr,
     EmptyStr,
     <<<<"check_file_names", "py">>>>,
     <<<<"bin">>, <<"precheck_data_format", "py">>>>,
     <<<<"check_metadata_format">>>>,
     <<<<"other", "py">>>>}

\* _format_caller(call_file): the last component, up to its first ".".
_format_caller(call_file) ==
    IF call_file = NotAStr THEN None
    ELSE call_file[Len(call_file)][1]

\* _match_caller(caller).
_match_caller(d, caller) ==
    IF caller = _check_file_names_out THEN d.stage_paths._cfn_path
    ELSE IF caller = _precheck_metadata_format_out
    THEN d.stage_paths._pcdf_path
    ELSE IF caller = _check_metadata_format_out THEN d.stage_paths._cmd_path
    ELSE ReturnNone

get_output_filepath_stale_paths(d, call_file) == d

\* get_output_filepath(call_file): the document after the call.
get_output_filepath(d, call_file) == _update_stage_paths(d)

\* get_output_filepath(call_file): the path returned.
get_output_filepath_return(d, call_file) ==
    LET d1 == get_output_filepath(d, call_file)
        caller == _format_caller(call_file)
    IN  IF ~FalsyStr(caller) THEN _match_caller(d1, caller)
        ELSE d1.stage_paths._default_path

\* The file names given to save: None, or a stem and its extension.
NoFilename == <<>>
Filenames == {NoFilename, <<"out", "">>, <<"out", ".hlsp">>}

\* The name save writes to.
savename(d, caller, filename) ==
    IF caller # NotAStr /\ caller # EmptyStr
    THEN get_output_filepath_return(d, caller)
    ELSE IF filename # NoFilename
    THEN IF filename[2] # _file_ext
         THEN <<filename[1] \o filename[2], _file_ext>>
         ELSE filename
    ELSE get_output_filepath_return(d, NotAStr)

save_stale_updates(d, caller, filename, opened) ==
    LET d1 == _update_stage_paths(d) IN
    IF savename(d1, caller, filename) = ReturnNone
    THEN Raise(d1, "TypeError")
    ELSE IF ~opened THEN Raise(d1, "FileNotFoundError")
    ELSE d1

\* save(caller, filename): the document after the call.  The file is opened
\* before as_dict is called: open(None) raises TypeError, and open of a
\* name in a directory that does not exist (opened = FALSE; save creates no
\* directory) raises FileNotFoundError, the update list left as it was.
save(d, caller, filename, opened) ==
    LET d1 == _update_stage_paths(d) IN
    IF savename(d1, caller, filename) = ReturnNone
    THEN Raise(d1, "TypeError")
    ELSE IF ~opened THEN Raise(d1, "FileNotFoundError")
    ELSE as_dict(d1)

\* call_file.replace(".py", ".log").
ReplacePyLog(call_file) ==
    [i \in 1..Len(call_file) |->
        [j \in 1..Len(call_file[i]) |->
            IF j > 1 /\ call_file[i][j] = "py" THEN "log"
            ELSE call_file[i][j]]]

\* find_log_file(call_file, here): the document after the call.
find_log_file(d, call_file, here) ==
    IF call_file = NotAStr
    THEN Raise(_update_stage_paths(d), "AttributeError")
    ELSE _update_stage_paths(d)

\* find_log_file(call_file, here): str() of the path it looks for, the
\* directory of the stage's path or the working directory, then the log
\* file's name.
find_log_file_return(d, call_file, here) ==
    LET d1 == find_log_file(d, call_file, here)
        caller == _match_caller(d1, _format_caller(call_file))
        filename == ReplacePyLog(call_file)
    IN  IF caller # ReturnNone /\ ~here
        THEN <<"str", caller[1], caller[2], filename>>
        ELSE <<"str", "cwd", None, filename>>

----------------------------------------------------------------------------
(* The export to the XML template.                                         *)

\* The three subtrees of the XML tree; xmltree.find of another section
\* gives None.
XmlSections == {"metadataList", "provenance", "productList"}

\* bin.check_paths.check_new_file(output): it rejects a path that cannot be
\* written (valid = FALSE) and lets the export go on otherwise.
check_new_file(d, output, valid) ==
    IF valid THEN d ELSE Raise(d, "OSError")

write_xml_template_keeps_name(d, output, valid, written) ==
    LET d1 == IF FalsyStr(output) /\ "Output" \notin DOMAIN d.file_paths
              THEN Raise(d, "KeyError")
              ELSE d
        check(x) == check_new_file(x, output, valid)
        name(x) == add_unique_parameter_if_absent(x, "name", "provenance",
                                                  Upper(x.hlsp_name))
        file == IF FalsyStr(output) THEN d.file_paths["Output"] ELSE output
        write(x) == IF written /\ file # "" THEN x
                    ELSE Raise(x, "FileNotFoundError")
    IN  Then(Then(Then(d1, check), name), write)

\* write_xml_template(output).  The XML tree is built and written aside of
\* the document; a section that is none of the three subtrees makes
\* _add_xml_value_pairs raise TypeError, after the name has been set.  The
\* file is written last: xmltree.write of a name that cannot be opened
\* (written = FALSE, or the empty name that file_paths["Output"] holds by
\* default) raises FileNotFoundError, the name staying set.
write_xml_template(d, output, valid, written) ==
    LET d1 == IF FalsyStr(output) /\ "Output" \notin DOMAIN d.file_paths
              THEN Raise(d, "KeyError")
              ELSE d
        check(x) == check_new_file(x, output, valid)
        name(x) == add_unique_parameter(x, "name", "provenance",
                                        Upper(x.hlsp_name))
        pairs(x) == IF DOMAIN x.unique_parameters \subseteq XmlSections
                    THEN x
                    ELSE Raise(x, "TypeError")
        file == IF FalsyStr(output) THEN d.file_paths["Output"] ELSE output
        write(x) == IF written /\ file # "" THEN x
                    ELSE Raise(x, "FileNotFoundError")
    IN  Then(Then(Then(Then(d1, check), name), pairs), write)

\* The sections, parameter names and values given to add_unique_parameter.
Parents == {"provenance", "metadataList", "other"}
CaomNames == {"name", "reference", "project"}
ParamValues == {"x>", "HST"} \cup NonStrValues

\* Hand-written dictionaries whose FilePaths lacks the key InputDir.
PathDicts ==
    {[HlspDict({"FilePaths", "HlspName"}, <<>>, "Foo", <<>>)
        EXCEPT !.FilePaths = [Output |-> "/out"]]}

----------------------------------------------------------------------------
(* The state: the attributes of one HLSPFile object, the call in progress  *)
(* and what the caller holds.                                              *)

VARIABLES
    ingest,             \* self.ingest
    file_paths,         \* self.file_paths
    file_types,         \* self.file_types
    hlsp_name,          \* self.hlsp_name
    keyword_updates,    \* self.keyword_updates
    unique_parameters,  \* self.unique_parameters
    fits_keywords,      \* self._fits_keywords
    standard_keywords,  \* self._standard_keywords
    stage_paths,        \* self._root, _default_path, _cfn_path, ...
    aliased,            \* identifiers whose record is one object in
                        \* keyword_updates and _fits_keywords
    last,               \* the last call: its name, argument and exception
    calls,              \* the number of calls made
    pc,                 \* "idle", or "load_dict" while load_dict runs
    from_dict,          \* the argument of the running load_dict
    in_order,           \* the keys load_dict has still to step through
    from_saved,         \* from_dict is the dictionary object in saved
    saved,              \* the dictionary the last as_dict returned, or the
                        \* one the last save wrote
    held,               \* saved is the object as_dict returned to the
                        \* caller (FALSE: what is in the file save wrote)
    shared,             \* the keys of saved whose value is the same object
                        \* as the attribute of the document
    orig,               \* the document as_dict returned it from
    ret                 \* the value the last call returned

docvars == <<ingest, file_paths, file_types, hlsp_name, keyword_updates,
             unique_parameters, fits_keywords, standard_keywords,
             stage_paths, aliased>>
loadvars == <<pc, from_dict, in_order, from_saved>>
vars == <<docvars, last, calls, loadvars, saved, held, shared, orig, ret>>

Doc ==
    [ingest |-> ingest,
     file_paths |-> file_paths,
     file_types |-> file_types,
     hlsp_name |-> hlsp_name,
     keyword_updates |-> keyword_updates,
     unique_parameters |-> unique_parameters,
     fits_keywords |-> fits_keywords,
     standard_keywords |-> standard_keywords,
     stage_paths |-> stage_paths,
     aliased |-> aliased,
     err |-> "none"]

SetDoc(d) ==
    /\ ingest' = d.ingest
    /\ file_paths' = d.file_paths
    /\ file_types' = d.file_types
    /\ hlsp_name' = d.hlsp_name
    /\ keyword_updates' = d.keyword_updates
    /\ unique_parameters' = d.unique_parameters
    /\ fits_keywords' = d.fits_keywords
    /\ standard_keywords' = d.standard_keywords
    /\ stage_paths' = d.stage_paths
    /\ aliased' = d.aliased

\* The constructor: HLSPFile() or HLSPFile(name="Foo").
Init ==
    /\ \E d \in {NewDoc, NewNamedDoc("Foo")} :
          /\ ingest = d.ingest
          /\ file_paths = d.file_paths
          /\ file_types = d.file_types
          /\ hlsp_name = d.hlsp_name
          /\ keyword_updates = d.keyword_updates
          /\ unique_parameters = d.unique_parameters
          /\ fits_keywords = d.fits_keywords
          /\ standard_keywords = d.standard_keywords
          /\ stage_paths = d.stage_paths
          /\ aliased = d.aliased
    /\ last = [op |-> "__init__", arg |-> None, err |-> "none"]
    /\ calls = 0
    /\ pc = "idle"
    /\ from_dict = EmptyDict
    /\ in_order = <<>>
    /\ from_saved = FALSE
    /\ saved = EmptyDict
    /\ held = FALSE
    /\ shared = {}
    /\ orig = NewDoc
    /\ ret = ReturnNone

\* A call may start: no call is running and the session goes on.
CanCall == pc = "idle" /\ calls < MaxCalls /\ ~Corrupt(Doc)

\* A call that runs to its end, or to its exception, in one step, and
\* returns r.
CallReturning(op, arg, d, r) ==
    /\ CanCall
    /\ SetDoc(d)
    /\ last' = [op |-> op, arg |-> arg, err |-> d.err]
    /\ calls' = calls + 1
    /\ ret' = IF d.err = "none" THEN r ELSE ReturnNone
    /\ saved' = Held(saved, shared, d)
    /\ UNCHANGED <<loadvars, held, shared, orig>>

\* A call of a method without a return statement.
Call(op, arg, d) == CallReturning(op, arg, d, ReturnNone)

ToggleIngest ==
    \E n \in StepNums, st \in ToggleStates :
        Call("toggle_ingest", <<n, st>>, toggle_ingest(Doc, n, st))

AddFiletype ==
    \E ft \in FileTypeObjs :
        Call("add_filetype", ft, add_filetype(Doc, ft))

RemoveFiletype ==
    \E ft \in FileTypeObjs :
        Call("remove_filetype", "FileType", remove_filetype(Doc, ft))

AddFitsKeyword ==
    \E obj \in KwObjs, standard \in BOOLEAN :
        Call("add_fits_keyword", ShapeOf(obj),
             add_fits_keyword(Doc, obj, standard))

AddFitsKeywordPrivate ==
    \E obj \in KwObjs :
        Call("_add_fits_keyword", ShapeOf(obj),
             _add_fits_keyword(Doc, obj, FALSE))

AddKeywordUpdate ==
    \E obj \in KwObjs :
        Call("add_keyword_update", ShapeOf(obj), add_keyword_update(Doc, obj))

\* The same four calls, given an object of another type.
AddFiletypeForeign ==
    Call("add_filetype", NotAFileType, add_filetype(Doc, NotAFileType))

AddFitsKeywordForeign ==
    \E obj \in ForeignObjs, standard \in BOOLEAN :
        Call("add_fits_keyword", ShapeOf(obj),
             add_fits_keyword(Doc, obj, standard))

AddFitsKeywordPrivateForeign ==
    \E obj \in ForeignObjs :
        Call("_add_fits_keyword", ShapeOf(obj),
             _add_fits_keyword(Doc, obj, FALSE))

AddKeywordUpdateForeign ==
    \E obj \in ForeignObjs :
        Call("add_keyword_update", ShapeOf(obj), add_keyword_update(Doc, obj))

ResetFitsKeywords ==
    Call("reset_fits_keywords", None, reset_fits_keywords(Doc))

GetStandardFitsKeywords ==
    Call("_get_standard_fits_keywords", None, _get_standard_fits_keywords(Doc))

GetKeywordUpdates ==
    Call("_get_keyword_updates", None, _get_keyword_updates(Doc))

ImplementKeywordUpdates ==
    Call("_implement_keyword_updates", None, _implement_keyword_updates(Doc))

\* as_dict(): the caller keeps the dictionary, which shares three of its
\* values with the document, and the document it is of.
AsDict ==
    /\ CanCall
    /\ SetDoc(as_dict(Doc))
    /\ saved' = AsDictResult(Doc)
    /\ held' = TRUE
    /\ shared' = SharedKeys
    /\ orig' = as_dict(Doc)
    /\ last' = [op |-> "as_dict", arg |-> None, err |-> "none"]
    /\ calls' = calls + 1
    /\ ret' = ReturnNone
    /\ UNCHANGED loadvars

\* load_dict(from_dict) starts, on this document or (fresh) on the one
\* HLSPFile(from_dict=...) has just constructed, whose dictionaries are new
\* objects.  object tells that from_dict is the object in saved, rather
\* than a dictionary written by hand or read from a file.
LoadDictStart(dict, fresh, object) ==
    /\ CanCall
    /\ dict.keys # {}
    /\ SetDoc(_update_stage_paths(IF fresh THEN NewDoc ELSE Doc))
    /\ pc' = "load_dict"
    /\ from_dict' = dict
    /\ from_saved' = object
    /\ in_order' = SortedKeys(dict)
    /\ last' = [op |-> "load_dict", arg |-> fresh, err |-> "running"]
    /\ calls' = calls + 1
    /\ ret' = ReturnNone
    /\ shared' = IF fresh THEN {} ELSE shared
    /\ UNCHANGED <<saved, held, orig>>

\* load_dict of a dictionary written by hand, or of the one in saved (no
\* dictionary written by hand has the keys of that one).
LoadDictCall ==
    \E dict \in LoadDicts \cup {saved}, fresh \in BOOLEAN :
        LoadDictStart(dict, fresh, held /\ dict = saved)

\* load_dict of a dictionary whose FilePaths has no InputDir.
LoadDictCallPaths ==
    \E dict \in PathDicts, fresh \in BOOLEAN :
        LoadDictStart(dict, fresh, FALSE)

\* One turn of the loop of load_dict: val = from_dict[key] is read when the
\* turn begins.  An attribute set from the dictionary in saved is from then
\* on the object of that dictionary; set from another dictionary, it is no
\* longer the object that saved has.
LoadDictKey ==
    /\ pc = "load_dict"
    /\ in_order # <<>>
    /\ LET key == Head(in_order)
           d == LoadKey(Doc, from_dict, key)
           keys == IF ~Rebinds(from_dict, key) THEN shared
                   ELSE IF from_saved THEN shared \cup {key}
                   ELSE shared \ {key}
       IN
       /\ SetDoc(d)
       /\ shared' = keys
       /\ saved' = Held(saved, keys, d)
       /\ from_dict' = IF from_saved THEN Held(saved, keys, d) ELSE from_dict
       /\ IF d.err = "none"
          THEN /\ in_order' = Tail(in_order)
               /\ UNCHANGED <<pc, last>>
          ELSE /\ in_order' = <<>>
               /\ pc' = "idle"
               /\ last' = [last EXCEPT !.err = d.err]
    /\ UNCHANGED <<calls, from_saved, held, orig, ret>>

\* load_dict returns.
LoadDictReturn ==
    /\ pc = "load_dict"
    /\ in_order = <<>>
    /\ pc' = "idle"
    /\ last' = [last EXCEPT !.err = "none"]
    /\ UNCHANGED <<docvars, calls, from_dict, in_order, from_saved, saved,
                   held, shared, orig, ret>>

\* member_fits_standards(): None when no entry qualifies.
MemberFitsStandards ==
    CallReturning("member_fits_standards", None, Doc,
                  IF member_fits_standards(Doc) = <<>> THEN ReturnNone
                  ELSE <<"list", member_fits_standards(Doc)>>)

\* The caller assigns the attribute: h.hlsp_name = name.
SetName ==
    \E name \in Names :
        Call("hlsp_name =", name, [Doc EXCEPT !.hlsp_name = name])

UpdateFilepaths ==
    \E input \in PathArgs, output \in PathArgs :
        Call("update_filepaths", <<input, output>>,
             update_filepaths(Doc, input, output))

GetDataPath ==
    CallReturning("get_data_path", None, get_data_path(Doc),
                  get_data_path_return(Doc))

GetOutputFilepath ==
    \E call_file \in CallFiles :
        CallReturning("get_output_filepath", call_file,
                      get_output_filepath(Doc, call_file),
                      get_output_filepath_return(Doc, call_file))

FindLogFile ==
    \E call_file \in CallFiles, here \in BOOLEAN :
        CallReturning("find_log_file", call_file,
                      find_log_file(Doc, call_file, here),
                      find_log_file_return(Doc, call_file, here))

\* save(caller, filename): the caller keeps the name of the file, and the
\* file what was written; nothing is written when the call raises.  The
\* file name is not read when a caller is given, so it is varied only
\* without one.
SaveFrom(callers) ==
    \E caller \in callers, opened \in BOOLEAN :
    \E filename \in IF caller \in {NotAStr, EmptyStr} THEN Filenames
                     ELSE {NoFilename} :
        LET d == save(Doc, caller, filename, opened) IN
        /\ CanCall
        /\ SetDoc(d)
        /\ last' = [op |-> "save", arg |-> caller, err |-> d.err]
        /\ calls' = calls + 1
        /\ IF d.err = "none"
           THEN /\ saved' = AsDictResult(_update_stage_paths(Doc))
                /\ held' = FALSE
                /\ shared' = {}
                /\ orig' = d
                /\ ret' = savename(_update_stage_paths(Doc), caller, filename)
           ELSE /\ ret' = ReturnNone
                /\ UNCHANGED <<saved, held, shared, orig>>
        /\ UNCHANGED loadvars

Save == SaveFrom(CallFiles)

\* save with the hint of a stage and with a hint that names no stage.
SaveOfStage ==
    SaveFrom({<<<<"check_file_names", "py">>>>, <<<<"other", "py">>>>})

\* add_unique_parameter, among the first MaxParamCalls calls of a session.
AddUniqueParameter ==
    \E caom \in CaomNames, parent \in Parents, value \in ParamValues :
        /\ calls < MaxParamCalls
        /\ Call("add_unique_parameter", <<caom, parent, value>>,
                add_unique_parameter(Doc, caom, parent, value))

WriteXmlTemplate ==
    \E output \in PathArgs, valid \in BOOLEAN, written \in BOOLEAN :
        Call("write_xml_template", output,
             write_xml_template(Doc, output, valid, written))

Next ==
    \/ MemberFitsStandards
    \/ AddUniqueParameter
    \/ WriteXmlTemplate
    \/ SetName
    \/ UpdateFilepaths
    \/ GetDataPath
    \/ GetOutputFilepath
    \/ FindLogFile
    \/ Save
    \/ SaveOfStage
    \/ LoadDictCallPaths
    \/ ToggleIngest
    \/ AddFiletype
    \/ RemoveFiletype
    \/ AddFitsKeyword
    \/ AddFitsKeywordPrivate
    \/ AddKeywordUpdate
    \/ AddFiletypeForeign
    \/ AddFitsKeywordForeign
    \/ AddFitsKeywordPrivateForeign
    \/ AddKeywordUpdateForeign
    \/ ResetFitsKeywords
    \/ GetStandardFitsKeywords
    \/ GetKeywordUpdates
    \/ ImplementKeywordUpdates
    \/ AsDict
    \/ LoadDictCall
    \/ LoadDictKey
    \/ LoadDictReturn

\* Every call on one document.
Spec == Init /\ [][Next]_vars

\* Sessions of toggle_ingest calls: the ingestion-step flags, which no
\* other call reads and only load_dict sets.
NextIngest == ToggleIngest

SpecIngest == Init /\ [][NextIngest]_vars

\* Sessions on the file types and the three keyword lists.
NextKeywords ==
    \/ AddFiletype
    \/ RemoveFiletype
    \/ AddFitsKeyword
    \/ AddFitsKeywordPrivate
    \/ AddKeywordUpdate
    \/ ResetFitsKeywords
    \/ GetStandardFitsKeywords
    \/ GetKeywordUpdates
    \/ ImplementKeywordUpdates

SpecKeywords == Init /\ [][NextKeywords]_vars

\* Sessions that build a document, persist it and load it again.
NextLoad ==
    \/ AddFiletype
    \/ RemoveFiletype
    \/ AddFitsKeyword
    \/ ResetFitsKeywords
    \/ AsDict
    \/ LoadDictCall
    \/ LoadDictKey
    \/ LoadDictReturn

SpecLoad == Init /\ [][NextLoad]_vars

\* Sessions that fill the working and the standard list, by hand, by
\* derivation and by load.
NextCover ==
    \/ AddFiletype
    \/ AddFitsKeyword
    \/ AddFitsKeywordPrivate
    \/ GetKeywordUpdates
    \/ ImplementKeywordUpdates
    \/ ResetFitsKeywords
    \/ LoadDictCall
    \/ LoadDictKey
    \/ LoadDictReturn

SpecCover == Init /\ [][NextCover]_vars

\* Sessions that edit the keywords and the update list and persist the
\* document.
NextPersist ==
    \/ AddFiletype
    \/ AddFitsKeyword
    \/ AddKeywordUpdate
    \/ ResetFitsKeywords
    \/ AsDict
    \/ SaveOfStage

SpecPersist == Init /\ [][NextPersist]_vars

\* Sessions in which a caller may hand over an object of another type.
NextForeign ==
    \/ NextKeywords
    \/ AddFiletypeForeign
    \/ AddFitsKeywordForeign
    \/ AddFitsKeywordPrivateForeign
    \/ AddKeywordUpdateForeign

SpecForeign == Init /\ [][NextForeign]_vars

\* The calls about names and paths.
NextPaths ==
    \/ SetName
    \/ UpdateFilepaths
    \/ GetDataPath
    \/ GetOutputFilepath
    \/ FindLogFile
    \/ Save
    \/ LoadDictCall
    \/ LoadDictCallPaths
    \/ LoadDictKey
    \/ LoadDictReturn

SpecPaths == Init /\ [][NextPaths]_vars

\* File types of every kind: with and without a standard, a product type
\* and the participation flag.
Tags == {"fits", "txt", "png"}
AnyFileTypes ==
    {FileType(ft, std, pt, rc) :
        ft \in Tags, std \in {"hst", "kepler", ""}, pt \in {"image", ""},
        rc \in BOOLEAN}

\* The registries of n entries add_filetype can build from them: an entry
\* is appended only if its tag is not in the registry yet.
RECURSIVE RegistriesOfLen(_)
RegistriesOfLen(n) ==
    IF n = 0 THEN {<<>>}
    ELSE UNION {{Append(r, ft) :
                    ft \in {f \in AnyFileTypes :
                               \A i \in 1..Len(r) : r[i].ftype # f.ftype}} :
                r \in RegistriesOfLen(n - 1)}

Registries == UNION {RegistriesOfLen(n) : n \in 0..MaxTypes}

\* A document, new or named, whose registry holds such file types.
InitStandards ==
    /\ \E d \in {NewDoc, NewNamedDoc("Foo")}, r \in Registries :
          /\ ingest = d.ingest
          /\ file_paths = d.file_paths
          /\ file_types = r
          /\ hlsp_name = d.hlsp_name
          /\ keyword_updates = d.keyword_updates
          /\ unique_parameters = d.unique_parameters
          /\ fits_keywords = d.fits_keywords
          /\ standard_keywords = d.standard_keywords
          /\ stage_paths = d.stage_paths
          /\ aliased = d.aliased
    /\ last = [op |-> "__init__", arg |-> None, err |-> "none"]
    /\ calls = 0
    /\ pc = "idle"
    /\ from_dict = EmptyDict
    /\ in_order = <<>>
    /\ from_saved = FALSE
    /\ saved = EmptyDict
    /\ held = FALSE
    /\ shared = {}
    /\ orig = NewDoc
    /\ ret = ReturnNone

\* The selection of the standards and the derivation from them.
NextStandards ==
    \/ MemberFitsStandards
    \/ GetStandardFitsKeywords
    \/ ResetFitsKeywords

SpecStandards == InitStandards /\ [][NextStandards]_vars

\* The calls about the named parameters.
NextParams ==
    \/ SetName
    \/ AddUniqueParameter
    \/ WriteXmlTemplate

SpecParams == Init /\ [][NextParams]_vars

----------------------------------------------------------------------------
(* The ingestion-step flags (checked under SpecIngest).                    *)

\* The flag of step number k (0..4).
Complete(k) == ingest[SortedIngestKeys[k + 1]]

NoGaps == \A k \in 0..(NumSteps - 1) : Complete(k) => \A j \in 0..k : Complete(j)

\* C1, as stated: in every state reached by toggle_ingest calls, a complete
\* step has every earlier step complete.
C1_NoGapsAlways == NoGaps

\* C1, amended: a toggle_ingest call that clears no flag takes a document
\* without gaps to a document without gaps; only a call that marks a step
\* incomplete can leave a later step complete over it.
C1_NoGapsKept ==
    [][(NoGaps /\ \A s \in Range(steps) : ingest[s] => ingest'[s]) => NoGaps']_vars

\* A call marked step 2 complete on a document whose steps 3 and 4 are not.
C1_Witness ==
    /\ last.op = "toggle_ingest"
    /\ last.arg = <<2, "True">>
    /\ NoGaps
    /\ Complete(2)
    /\ ~Complete(3)

\* C2: a toggle_ingest(k) call that leaves step k complete leaves steps
\* 0..k complete and every later step as it was.
C2_ForwardPropagation ==
    [][\A k \in 0..(NumSteps - 1), st \in ToggleStates :
          (/\ last'.op = "toggle_ingest"
           /\ last'.arg = <<k, st>>
           /\ calls' = calls + 1
           /\ ingest'[SortedIngestKeys[k + 1]])
          => /\ \A j \in 0..k : ingest'[SortedIngestKeys[j + 1]]
             /\ \A j \in (k + 1)..(NumSteps - 1) :
                   ingest'[SortedIngestKeys[j + 1]]
                       = ingest[SortedIngestKeys[j + 1]]]_vars

\* A toggle (state omitted) of the incomplete step 2 completed steps 0..2
\* and left step 4 complete over the incomplete step 3.
C2_Witness ==
    /\ last.op = "toggle_ingest"
    /\ last.arg = <<2, None>>
    /\ Complete(0) /\ Complete(1) /\ Complete(2)
    /\ ~Complete(3)
    /\ Complete(4)

----------------------------------------------------------------------------
(* The keyword lists (checked under SpecKeywords).                         *)

\* C5: in every reachable state, computing the updates and applying them
\* at once leaves the working list as it was: the same records in the same
\* order with the same field values.
C5_ReconcileIdempotent ==
    LET d == _implement_keyword_updates(_get_keyword_updates(Doc))
    IN  d.err = "none" /\ d.fits_keywords = fits_keywords

\* The two calls were made on a working list that departs from the standard
\* list in a field of one keyword and in a keyword of its own.
C5_Witness ==
    /\ last.op = "_implement_keyword_updates"
    /\ last.err = "none"
    /\ standard_keywords # <<>>
    /\ keyword_updates = ListDiff(fits_keywords, standard_keywords)
    /\ Len(keyword_updates) >= 2
    /\ \E i \in 1..Len(keyword_updates) :
          keyword_updates[i].fits_keyword \in KwIdsOf(standard_keywords)

\* The record of list with identifier k.
KwOf(list, k) == list[KwFind(list, k)]

\* No record of updates repeats a record that a and b hold alike.
Minimal(updates, a, b) ==
    \A i \in 1..Len(updates) :
        LET k == updates[i].fits_keyword IN
        ~(k \in KwIdsOf(a) /\ k \in KwIdsOf(b) /\ KwOf(a, k) = KwOf(b, k))

\* C6: the update list _get_keyword_updates computes holds no record whose
\* identifier is in the working and the standard list with all fields
\* equal, and is empty when the two lists are equal; the same holds of the
\* diff of the standard list against the working list.
C6_MinimalUpdates ==
    LET updates == _get_keyword_updates(Doc).keyword_updates IN
    /\ Minimal(updates, fits_keywords, standard_keywords)
    /\ Minimal(ListDiff(standard_keywords, fits_keywords),
               standard_keywords, fits_keywords)
    /\ fits_keywords = standard_keywords => updates = <<>>

\* The updates were computed on a working list that holds one keyword as
\* the standard list does and another with a field changed.
C6_Witness ==
    /\ last.op = "_get_keyword_updates"
    /\ Len(keyword_updates) = 1
    /\ Len(standard_keywords) = 2
    /\ Len(fits_keywords) = 2
    /\ \E i \in 1..2 : fits_keywords[i] = standard_keywords[i]

\* No two records of the list share an identifier.
UniqueIds(list) ==
    \A i, j \in 1..Len(list) :
        list[i].fits_keyword = list[j].fits_keyword => i = j

\* C7: no two records of the working list, the standard list or the update
\* list share an identifier, and deriving the standard keywords a second
\* time adds no record.
C7_UniqueIdentifiers ==
    /\ UniqueIds(fits_keywords)
    /\ UniqueIds(standard_keywords)
    /\ UniqueIds(keyword_updates)
    /\ LET once == _get_standard_fits_keywords(Doc)
           twice == _get_standard_fits_keywords(once)
       IN  /\ UniqueIds(twice.fits_keywords)
           /\ UniqueIds(twice.standard_keywords)
           /\ Len(twice.fits_keywords) = Len(once.fits_keywords)
           /\ Len(twice.standard_keywords) = Len(once.standard_keywords)

\* The standard keywords of two file types that share a keyword were
\* derived again, beside a keyword of the caller and an update of it.
C7_Witness ==
    /\ last.op = "_get_standard_fits_keywords"
    /\ last.err = "none"
    /\ Len(member_fits_standards(Doc)) = 2
    /\ Len(standard_keywords) = 2
    /\ Len(fits_keywords) = 3
    /\ keyword_updates # <<>>

----------------------------------------------------------------------------
(* The persisted form (checked under SpecLoad).                            *)

\* The standard list reset_fits_keywords derives from a registry.
StandardOf(fts) ==
    reset_fits_keywords(
        [NewNamedDoc("Foo") EXCEPT !.file_types = fts]).standard_keywords

\* The same identifiers, each with the same field values.
SameKeywords(a, b) == Range(a) = Range(b)

\* load_dict has returned from loading the dictionary of the last as_dict
\* into a newly constructed document.
Reloaded ==
    /\ pc = "idle"
    /\ last.op = "load_dict"
    /\ last.arg
    /\ last.err = "none"
    /\ saved.keys # {}
    /\ held
    /\ from_saved
    /\ from_dict = saved

\* C3: when the standard list of a document is the one derived from its
\* file types, loading what as_dict returned into a new document gives a
\* working list with the same identifiers and the same field values.
C3_ReloadRoundTrip ==
    (Reloaded /\ orig.standard_keywords = StandardOf(orig.file_types))
        => SameKeywords(fits_keywords, orig.fits_keywords)

\* A document with derived keywords, an override of a field of one of them
\* and a keyword of its own has been persisted and loaded again.
C3_Witness ==
    /\ Reloaded
    /\ orig.standard_keywords = StandardOf(orig.file_types)
    /\ orig.standard_keywords # <<>>
    /\ Len(orig.keyword_updates) >= 1
    /\ \E i \in 1..Len(orig.keyword_updates) :
          orig.keyword_updates[i].fits_keyword
              \in KwIdsOf(orig.standard_keywords)
    /\ fits_keywords = orig.fits_keywords

FileTypeTags(fts) == {fts[i].ftype : i \in 1..Len(fts)}

\* The dictionary being loaded has the keys FileTypes and KeywordUpdates.
HasBoth == {"FileTypes", "KeywordUpdates"} \subseteq from_dict.keys

\* It has file types and keyword updates to load.
LoadsBoth ==
    /\ HasBoth
    /\ from_dict.FileTypes # <<>>
    /\ from_dict.KeywordUpdates # <<>>

\* load_dict has come to the key KeywordUpdates.
AtUpdates ==
    pc = "load_dict" /\ in_order # <<>> /\ Head(in_order) = "KeywordUpdates"

\* Every file type of the dictionary is registered and both lists hold the
\* standard keywords derived from the registry.
Rederived ==
    /\ \A i \in 1..Len(from_dict.FileTypes) :
          from_dict.FileTypes[i][1] \in FileTypeTags(file_types)
    /\ standard_keywords = StandardOf(file_types)
    /\ fits_keywords = standard_keywords

\* Every stored update is in the working list, its values applied.
Replayed ==
    \A i \in 1..Len(from_dict.KeywordUpdates) :
        LET u == KwFromListItem(from_dict.KeywordUpdates[i]) IN
        /\ u.fits_keyword \in KwIdsOf(fits_keywords)
        /\ KwUpdate(KwOf(fits_keywords, u.fits_keyword), KwParams(u))
               = KwOf(fits_keywords, u.fits_keyword)

\* C4 as stated: during load_dict of any dictionary with the keys FileTypes
\* and KeywordUpdates, the file types are registered and both lists reset
\* and refilled before the first update is replayed.
C4_ResetBeforeUpdatesAnyDict ==
    (HasBoth /\ AtUpdates) => Rederived

\* C4: load_dict steps through FileTypes before KeywordUpdates.  When the
\* dictionary has both keys and its FileTypes is not empty, every file type
\* of the dictionary is registered and both lists hold the standard
\* keywords derived from the registry when load_dict comes to the updates;
\* and when it returns every stored update is in the working list.
C4_FileTypesBeforeUpdates ==
    /\ (pc = "load_dict" /\ HasBoth /\ "FileTypes" \in Range(in_order))
          => "KeywordUpdates" \in Range(in_order)
    /\ (HasBoth /\ from_dict.FileTypes # <<>> /\ AtUpdates) => Rederived
    /\ (pc = "idle" /\ last.op = "load_dict" /\ last.err = "none" /\ HasBoth)
          => Replayed

\* load_dict has returned from a dictionary with a file type and an update
\* of a keyword of the template of that file type.
C4_Witness ==
    /\ pc = "idle" /\ last.op = "load_dict" /\ last.err = "none" /\ LoadsBoth
    /\ standard_keywords # <<>>
    /\ fits_keywords # standard_keywords

\* C8: no two entries of the registry have the same type tag, and
\* add_filetype with a tag that is present leaves the registry as it is.
C8_UniqueTypeTags ==
    /\ \A i, j \in 1..Len(file_types) :
          file_types[i].ftype = file_types[j].ftype => i = j
    /\ \A ft \in FileTypeObjs :
          ft.ftype \in FileTypeTags(file_types)
              => add_filetype(Doc, ft).file_types = file_types

\* add_filetype was given an entry whose tag the registry holds with other
\* parameters, beside a second entry.
C8_Witness ==
    /\ last.op = "add_filetype"
    /\ last.arg = FileType("fits", "hst", "image", TRUE)
    /\ Len(file_types) = 2
    /\ FileType("fits", "hst", "image", FALSE) \in Range(file_types)

\* The document is as HLSPFile() constructs it.
IsNewDoc ==
    /\ ingest = NewDoc.ingest
    /\ file_paths = NewDoc.file_paths
    /\ file_types = NewDoc.file_types
    /\ hlsp_name = NewDoc.hlsp_name
    /\ keyword_updates = NewDoc.keyword_updates
    /\ unique_parameters = NewDoc.unique_parameters
    /\ fits_keywords = NewDoc.fits_keywords
    /\ standard_keywords = NewDoc.standard_keywords

\* C9: when load_dict has ended on a dictionary with the key "Zzz", which
\* no attribute answers to, it has raised and the document is as a newly
\* constructed one.
C9_MalformedLeavesNewDoc ==
    (pc = "idle" /\ last.op = "load_dict" /\ "Zzz" \in from_dict.keys)
        => (last.err # "none" /\ IsNewDoc)

----------------------------------------------------------------------------
(* Objects of another type (checked under SpecForeign).                    *)

\* The call that has just returned was given an object without a type tag
\* (add_filetype) or without a keyword identifier (the keyword calls).
GivenNoIdentifier ==
    /\ calls' = calls + 1
    /\ \/ last'.op = "add_filetype" /\ last'.arg.ftype = Missing
       \/ /\ last'.op \in {"add_fits_keyword", "_add_fits_keyword",
                           "add_keyword_update"}
          /\ last'.arg \in {"other", "caom_keyword only"}

\* C10: a call given such an object raises TypeError and leaves the
\* registry and the three keyword lists as they were.
C10_TypeMismatchRejected ==
    [][GivenNoIdentifier
          => /\ last'.err = "TypeError"
             /\ UNCHANGED <<file_types, fits_keywords, standard_keywords,
                            keyword_updates>>]_vars

----------------------------------------------------------------------------
(* The input directory and the output paths (checked under SpecPaths).     *)

\* No input directory has been given: the key is absent or its value is the
\* empty string of the constructor.
InputDirNotSet ==
    \/ "InputDir" \notin DOMAIN file_paths
    \/ file_paths["InputDir"] = ""

\* C11: get_data_path called while no input directory has been set raises
\* an error, and does not return the empty string.
C11_MissingInputPathFails ==
    (last.op = "get_data_path" /\ InputDirNotSet)
        => (last.err # "none" /\ ret # ReturnStr(""))

\* The stage paths derived from a name.
PathsOf(name) ==
    [_root |-> _root_dir,
     _default_path |->
        <<_root_dir, None,
          [prefix |-> None, name |-> Lower(name), ext |-> ".hlsp"]>>,
     _cfn_path |->
        <<_root_dir, "CHECK_FILE_NAMES",
          [prefix |-> "check_file_names", name |-> Lower(name),
           ext |-> ".hlsp"]>>,
     _pcdf_path |->
        <<_root_dir, "CHECK_METADATA_FORMAT",
          [prefix |-> "precheck_data_format", name |-> Lower(name),
           ext |-> ".hlsp"]>>,
     _cmd_path |->
        <<_root_dir, "CHECK_METADATA_FORMAT",
          [prefix |-> "check_metadata_format", name |-> Lower(name),
           ext |-> ".hlsp"]>>]

\* The path a hint selects: the path of the stage its stem names, the
\* default path for every other hint.
PathForHint(call_file) ==
    LET stem == _format_caller(call_file) IN
    IF stem = "check_file_names" THEN PathsOf(hlsp_name)._cfn_path
    ELSE IF stem = "precheck_data_format" THEN PathsOf(hlsp_name)._pcdf_path
    ELSE IF stem = "check_metadata_format" THEN PathsOf(hlsp_name)._cmd_path
    ELSE PathsOf(hlsp_name)._default_path

\* C12: get_output_filepath, and save given a caller hint, return the path
\* of the stage the hint's stem names and the default path for a hint that
\* names no stage.
C12_HintSelectsPathOrDefault ==
    /\ last.op = "get_output_filepath" => ret = PathForHint(last.arg)
    /\ (last.op = "save" /\ last.arg # NotAStr /\ last.arg # EmptyStr)
          => (last.err = "none" /\ ret = PathForHint(last.arg))

\* C13: after get_output_filepath, save or find_log_file the paths of the
\* document are those derived from its current name, and a stage or default
\* path returned is one of them.
C13_PathsFollowName ==
    last.op \in {"get_output_filepath", "save", "find_log_file"}
        => /\ stage_paths = PathsOf(hlsp_name)
           /\ (Len(ret) = 3
                 => ret \in {PathsOf(hlsp_name)._default_path,
                             PathsOf(hlsp_name)._cfn_path,
                             PathsOf(hlsp_name)._pcdf_path,
                             PathsOf(hlsp_name)._cmd_path})

\* A dictionary with the name "Foo" was loaded, the name was then changed
\* to "blank", and get_output_filepath returned the stage path of "blank".
C13_Witness ==
    /\ "HlspName" \in from_dict.keys
    /\ from_dict.HlspName = "Foo"
    /\ pc = "idle"
    /\ hlsp_name = "blank"
    /\ last.op = "get_output_filepath"
    /\ ret = PathsOf("blank")._cfn_path

----------------------------------------------------------------------------
(* The named parameters (checked under SpecParams).                        *)

\* The values of ParamValues that end in the sentinel character.
ValuesWithSentinel == {"<placeholder>", "x>"}

\* What the claim has add_unique_parameter store.
Substituted(caom, parent, value) ==
    IF parent = "provenance" /\ value \in ValuesWithSentinel
    THEN IF caom = "name"
         THEN IF hlsp_name = "Foo" THEN "FOO" ELSE "BLANK"
         ELSE IF caom = "reference"
         THEN IF hlsp_name = "Foo"
              THEN "https://archive.stsci.edu/hlsp/foo"
              ELSE "https://archive.stsci.edu/hlsp/blank"
         ELSE value
    ELSE value

\* C14: add_unique_parameter stores, in section 'provenance', the product
\* name in upper case for a 'name' whose value ends in '>' and the archive
\* URL of the lower-case name for such a 'reference'; every other value,
\* a string or not, is stored as given.
C14_PlaceholderSubstitution ==
    last.op = "add_unique_parameter"
        => LET caom == last.arg[1]
               parent == last.arg[2]
               value == last.arg[3]
           IN  /\ last.err = "none"
               /\ parent \in DOMAIN unique_parameters
               /\ caom \in DOMAIN unique_parameters[parent]
               /\ unique_parameters[parent][caom]
                     = Substituted(caom, parent, value)

\* The call that has just returned is write_xml_template.
Exported ==
    /\ calls' = calls + 1
    /\ last'.op = "write_xml_template"
    /\ last'.err \notin {"KeyError", "OSError"}

\* C15: after write_xml_template the 'name' of section 'provenance' is the
\* product name in upper case, whatever it held before, and an export that
\* follows an export leaves the sections as they were.
C15_ExportSetsProvenanceName ==
    [][Exported
         => /\ "provenance" \in DOMAIN unique_parameters'
            /\ "name" \in DOMAIN unique_parameters'["provenance"]
            /\ unique_parameters'["provenance"]["name"]
                  = (IF hlsp_name' = "Foo" THEN "FOO" ELSE "BLANK")
            /\ (last.op = "write_xml_template"
                   /\ last.err \notin {"KeyError", "OSError"})
                  => unique_parameters' = unique_parameters]_vars

\* An export has returned for the product "Foo" whose section 'provenance'
\* held a 'reference' built from the name "blank".
C15_Witness ==
    /\ last.op = "write_xml_template"
    /\ last.err = "none"
    /\ hlsp_name = "Foo"
    /\ "provenance" \in DOMAIN unique_parameters
    /\ "reference" \in DOMAIN unique_parameters["provenance"]
    /\ unique_parameters["provenance"]["reference"]
          = "https://archive.stsci.edu/hlsp/blank"
    /\ unique_parameters["provenance"]["name"] = "FOO"

----------------------------------------------------------------------------
(* The selection of the standards (checked under SpecStandards).           *)

\* The entries that take part: flag set, product type and standard given.
Qualifying ==
    {i \in 1..Len(file_types) :
        /\ file_types[i].run_check
        /\ file_types[i].product_type # ""
        /\ file_types[i].standard # ""}

PairOf(i) == <<file_types[i].product_type, file_types[i].standard>>

\* The first entry that takes part and has the pair p.
FirstWith(p) ==
    CHOOSE i \in Qualifying :
        PairOf(i) = p /\ \A j \in Qualifying : PairOf(j) = p => i <= j

\* list holds exactly the pairs of the qualifying entries, each once, in
\* the order of their first entries.
SelectedInOrder(list) ==
    /\ Range(list) = {PairOf(i) : i \in Qualifying}
    /\ \A m, n \in 1..Len(list) :
          m < n => FirstWith(list[m]) < FirstWith(list[n])

\* C16: member_fits_standards returns exactly the distinct pairs of the
\* participating entries with a product type and a standard, each once in
\* first-occurrence order (None when there is none), and the derivation
\* changes no keyword list and no section when no entry qualifies.
C16_StandardsSelection ==
    [][calls' = calls + 1
         => /\ last'.op = "member_fits_standards"
                 => IF Qualifying = {} THEN ret' = ReturnNone
                    ELSE /\ Len(ret') = 2
                         /\ SelectedInOrder(ret'[2])
            /\ (last'.op = "_get_standard_fits_keywords" /\ Qualifying = {})
                 => /\ last'.err = "none"
                    /\ UNCHANGED <<fits_keywords, standard_keywords,
                                   unique_parameters>>]_vars

\* Three entries, the first and third with the same pair and the second
\* not taking part: the pair was returned once.
C16_Witness ==
    /\ last.op = "member_fits_standards"
    /\ Len(file_types) = 3
    /\ Qualifying = {1, 3}
    /\ PairOf(1) = PairOf(3)
    /\ ret = <<"list", <<PairOf(1)>>>>

----------------------------------------------------------------------------
(* The defaults of the named parameters on load (checked under SpecLoad).  *)

\* load_dict has returned from a dictionary with a product name and file
\* types, of which one at least takes part in the derivation.
LoadedNameAndTypes ==
    /\ pc = "idle"
    /\ last.op = "load_dict"
    /\ last.err = "none"
    /\ {"FileTypes", "HlspName"} \subseteq from_dict.keys
    /\ from_dict.HlspName # ""
    /\ \E i \in 1..Len(from_dict.FileTypes) :
          LET ft == FileTypeFromListItem(from_dict.FileTypes[i])
          IN  ft.run_check /\ ft.standard # "" /\ ft.product_type # ""

\* C17: once such a load has completed, the 'name' and 'reference' of
\* section 'provenance' are built from the loaded name: the name in upper
\* case and the archive URL of the name in lower case.
C17_DefaultsUseLoadedName ==
    LoadedNameAndTypes
        => /\ "provenance" \in DOMAIN unique_parameters
           /\ {"name", "reference"}
                 \subseteq DOMAIN unique_parameters["provenance"]
           /\ from_dict.HlspName = "Foo"
                 => /\ unique_parameters["provenance"]["name"] = "FOO"
                    /\ unique_parameters["provenance"]["reference"]
                          = "https://archive.stsci.edu/hlsp/foo"

----------------------------------------------------------------------------
(* The working list against the standard list (checked under SpecCover).   *)

\* C18: every identifier of the standard keyword list is an identifier of
\* the working keyword list, so the diff of the working list against the
\* standard list misses no record of the standard list.
C18_WorkingCoversStandard ==
    KwIdsOf(standard_keywords) \subseteq KwIdsOf(fits_keywords)

\* add_fits_keyword has just added to a derived standard list, and the
\* working list holds a keyword the standard list has not.
C18_Witness ==
    /\ last.op = "add_fits_keyword"
    /\ last.err = "none"
    /\ KwIdsOf(standard_keywords) = {"K1", "K2"}
    /\ KwIdsOf(fits_keywords) = {"K1", "K2", "K3"}

----------------------------------------------------------------------------
(* The persisted update list (checked under SpecPersist).                  *)

\* The call that has just returned is as_dict or save.
Persisted ==
    /\ calls' = calls + 1
    /\ last'.op \in {"as_dict", "save"}
    /\ last'.err = "none"

\* C19: after as_dict or save, the update list of the document and the
\* persisted KeywordUpdates are the diff of the working list against the
\* standard list, whatever the update list held before: a record of the
\* update list that was never applied to the working list is not persisted.
C19_UpdatesRecomputed ==
    [][Persisted
         => LET diff == ListDiff(fits_keywords', standard_keywords') IN
            /\ keyword_updates' = diff
            /\ saved'.KeywordUpdates
                  = [i \in 1..Len(diff) |-> KwAsDict(diff[i])]
            /\ \A i \in 1..Len(keyword_updates) :
                  keyword_updates[i].fits_keyword \notin KwIdsOf(fits_keywords)
                     => \A j \in 1..Len(saved'.KeywordUpdates) :
                           KwFromListItem(saved'.KeywordUpdates[j]).fits_keyword
                              # keyword_updates[i].fits_keyword]_vars

\* save has written a document whose working list differs from its derived
\* standard list in the keyword K1 only.
C19_Witness ==
    /\ last.op = "save"
    /\ last.err = "none"
    /\ standard_keywords # <<>>
    /\ Len(saved.KeywordUpdates) = 1
    /\ KwFromListItem(saved.KeywordUpdates[1]).fits_keyword = "K1"

====
